---- MODULE Spec2Model ----
(***************************************************************************)
(* Archify-Ai: the SVG diagram generator                                   *)
(* (backend/api/svg_diagram_generator.py) as a state machine.              *)
(*                                                                         *)
(* A Python dict is a function whose DOMAIN is the set of keys present     *)
(* (Get is dict.get).  The components mapping, an insertion-ordered dict,  *)
(* is a sequence of [name, comp] entries with pairwise different names.    *)
(* A Python float is an exact rational [n, d] in lowest terms.  Text that  *)
(* the code slices or rewrites is a sequence of one-character strings.     *)
(***************************************************************************)
EXTENDS Integers, Sequences, FiniteSets, TLC

(***************************************************************************)
(* Bounds of the model.                                                    *)
(***************************************************************************)
MaxLayoutComps == 4
MaxTypedComps == 2
MaxComps == 2
MaxRels == 2
MaxCalls == 2
MaxDescLen == 26
MaxShapedComps == 1
MaxContent == 101
MaxThreads == 2
MaxRequests == 2

(***************************************************************************)
(* Constants of the program.                                               *)
(***************************************************************************)
canvas_width == 1400
canvas_height == 900
margin_x == 150
margin_y == 150
layer_height == 180

(***************************************************************************)
(* dict.get(key, default)                                                  *)
(***************************************************************************)
Get(d, k, default) == IF k \in DOMAIN d THEN d[k] ELSE default

Max(a, b) == IF a >= b THEN a ELSE b

(***************************************************************************)
(* Exact rational arithmetic standing for Python's float arithmetic.       *)
(***************************************************************************)
Abs(a) == IF a < 0 THEN -a ELSE a

RECURSIVE Gcd(_, _)
Gcd(a, b) == IF b = 0 THEN a ELSE Gcd(b, a % b)

Rat(n, d) ==
    LET g == Gcd(Abs(n), Abs(d))
        s == IF d < 0 THEN -1 ELSE 1
    IN  [n |-> (s * n) \div g, d |-> (s * d) \div g]

RatInt(k) == [n |-> k, d |-> 1]
RatAdd(p, q) == Rat(p.n * q.d + q.n * p.d, p.d * q.d)
RatSub(p, q) == Rat(p.n * q.d - q.n * p.d, p.d * q.d)
RatMul(p, q) == Rat(p.n * q.n, p.d * q.d)
RatLess(p, q) == p.n * q.d < q.n * p.d

(***************************************************************************)
(* str.lower() on the component type strings the model feeds in.           *)
(***************************************************************************)
Lower(s) ==
    CASE s = "Client" -> "client"
      [] s = "DATABASE" -> "database"
      [] s = "Shop" -> "shop"
      [] OTHER -> s

(***************************************************************************)
(* _calculate_hierarchical_layout                                          *)
(***************************************************************************)
\* mutant: the service layer is placed before the gateway layer
LayerOrderServiceFirst == <<"client", "service", "gateway", "data">>

LayerOrder == <<"client", "gateway", "service", "data">>

LayerNames == {LayerOrder[k] : k \in 1..Len(LayerOrder)}

\* comp.get('type', 'infrastructure').lower()
CompType(comp) == Lower(Get(comp, "type", "infrastructure"))

\* mutant: no final else; the service branch lists the types it takes
LayerOfWithoutDefault(comp_type) ==
    IF comp_type \in {"client"} THEN "client"
    ELSE IF comp_type \in {"gateway", "external"} THEN "gateway"
    ELSE IF comp_type \in {"database", "cache", "queue"} THEN "data"
    ELSE IF comp_type \in {"service", "infrastructure"} THEN "service"
    ELSE "none"

\* mutant: 'external' is missing from the gateway branch
LayerOfWithoutExternal(comp_type) ==
    IF comp_type \in {"client"} THEN "client"
    ELSE IF comp_type \in {"gateway"} THEN "gateway"
    ELSE IF comp_type \in {"database", "cache", "queue"} THEN "data"
    ELSE "service"

\* the if/elif chain that picks the layer list a component is appended to
LayerOf(comp_type) ==
    IF comp_type \in {"client"} THEN "client"
    ELSE IF comp_type \in {"gateway", "external"} THEN "gateway"
    ELSE IF comp_type \in {"database", "cache", "queue"} THEN "data"
    ELSE "service"

\* mutant: each name is put at the front of its layer list
RECURSIVE LayerListPrepend(_, _)
LayerListPrepend(components, layer_name) ==
    IF components = <<>> THEN <<>>
    ELSE LET e == components[Len(components)]
             before == LayerListPrepend(SubSeq(components, 1, Len(components) - 1),
                                        layer_name)
         IN  IF LayerOf(CompType(e.comp)) = layer_name
             THEN <<e.name>> \o before
             ELSE before

\* the list layers[layer_name] after the loop over components.items()
RECURSIVE LayerList(_, _)
LayerList(components, layer_name) ==
    IF components = <<>> THEN <<>>
    ELSE LET e == components[Len(components)]
             before == LayerList(SubSeq(components, 1, Len(components) - 1), layer_name)
         IN  IF LayerOf(CompType(e.comp)) = layer_name
             THEN Append(before, e.name)
             ELSE before

Layers(components) == [l \in LayerNames |-> LayerList(components, l)]

\* mutant: floor division
SpacingFloorDiv(num_in_layer) ==
    RatInt((canvas_width - 2 * margin_x) \div Max(num_in_layer, 1))

\* spacing = (canvas_width - 2 * margin_x) / max(num_in_layer, 1)
Spacing(num_in_layer) == Rat(canvas_width - 2 * margin_x, Max(num_in_layer, 1))

\* mutant: the half cell is left out, x = margin_x + i * spacing
XOfCellStart(i, spacing) == RatAdd(RatInt(margin_x), RatMul(RatInt(i), spacing))

\* x = margin_x + (i + 0.5) * spacing, i counted from 0
XOf(i, spacing) == RatAdd(RatInt(margin_x), RatMul(Rat(2 * i + 1, 2), spacing))

\* the inner loop: positions[comp_name] = (x, y) for each member of one layer
RECURSIVE PlaceLayer(_, _, _, _, _)
PlaceLayer(layer_components, i, spacing, y, positions) ==
    IF i >= Len(layer_components) THEN positions
    ELSE PlaceLayer(layer_components, i + 1, spacing, y,
                    (layer_components[i + 1] :> [x |-> XOf(i, spacing), y |-> y])
                        @@ positions)

\* mutant: an empty layer advances current_y too
AdvanceYAlways(current_y, layer_components) == current_y + layer_height

\* current_y after one iteration of the loop over the layers
AdvanceY(current_y, layer_components) ==
    IF layer_components = <<>> THEN current_y ELSE current_y + layer_height

\* the loop over ['client', 'gateway', 'service', 'data']
RECURSIVE PlaceLayers(_, _, _, _)
PlaceLayers(layers, k, current_y, positions) ==
    IF k > Len(LayerOrder) THEN positions
    ELSE LET layer_components == layers[LayerOrder[k]]
         IN  IF layer_components = <<>>
             THEN PlaceLayers(layers, k + 1, AdvanceY(current_y, layer_components),
                              positions)
             ELSE PlaceLayers(layers, k + 1, AdvanceY(current_y, layer_components),
                              PlaceLayer(layer_components, 0,
                                         Spacing(Len(layer_components)),
                                         current_y, positions))

CalculateHierarchicalLayout(components) ==
    PlaceLayers(Layers(components), 1, margin_y, <<>>)

(***************************************************************************)
(* Text: sequences of one-character strings.                               *)
(***************************************************************************)
LowerCase == <<"a", "b", "c", "d", "e", "f", "g", "h", "i", "j", "k", "l", "m",
               "n", "o", "p", "q", "r", "s", "t", "u", "v", "w", "x", "y", "z">>
UpperCase == <<"A", "B", "C", "D", "E", "F", "G", "H", "I", "J", "K", "L", "M",
               "N", "O", "P", "Q", "R", "S", "T", "U", "V", "W", "X", "Y", "Z">>

IsLetter(ch) == \E k \in 1..Len(LowerCase) : ch = LowerCase[k] \/ ch = UpperCase[k]

UpperChar(ch) ==
    IF \E k \in 1..Len(LowerCase) : ch = LowerCase[k]
    THEN UpperCase[CHOOSE k \in 1..Len(LowerCase) : ch = LowerCase[k]]
    ELSE ch

LowerChar(ch) ==
    IF \E k \in 1..Len(UpperCase) : ch = UpperCase[k]
    THEN LowerCase[CHOOSE k \in 1..Len(UpperCase) : ch = UpperCase[k]]
    ELSE ch

\* str.replace(old, new) for one-character old and new
ReplaceChar(text, old, new) ==
    [k \in 1..Len(text) |-> IF text[k] = old THEN new ELSE text[k]]

\* mutant: str.capitalize(), only the first character is upper-cased
TitleCapitalize(text) ==
    [k \in 1..Len(text) |->
        IF k = 1 THEN UpperChar(text[k]) ELSE LowerChar(text[k])]

\* str.title(): a letter that follows a non-letter is upper-cased, any other
\* letter lower-cased
Title(text) ==
    [k \in 1..Len(text) |->
        IF k = 1 \/ ~IsLetter(text[k - 1]) THEN UpperChar(text[k]) ELSE LowerChar(text[k])]

(***************************************************************************)
(* The shapes: _draw_shape and the five _draw_* methods.  An element of    *)
(* the document is a record of what the markup is filled in with.          *)
(***************************************************************************)
\* self.default_palette, set in __init__
default_palette ==
    [client |-> "#7C3AED", gateway |-> "#059669", microservice |-> "#DC2626",
     database |-> "#B91C1C", cache |-> "#F59E0B", queue |-> "#8B5CF6",
     external |-> "#06B6D4", infrastructure |-> "#1D4ED8"]

TruncateAt == 25
MinContent == 100

Ellipsis == <<".", ".", ".">>

\* mutant: >= for >
TruncatedFrom25(description) ==
    IF Len(description) >= TruncateAt
    THEN SubSeq(description, 1, TruncateAt) \o Ellipsis
    ELSE description

\* (description[:25] + '...') if len(description) > 25 else description
Truncated(description) ==
    IF Len(description) > TruncateAt
    THEN SubSeq(description, 1, TruncateAt) \o Ellipsis
    ELSE description

DrawRoundedRect(x, y, color, name, comp_type, description) ==
    [kind |-> "node", family |-> "rounded_rect", x |-> x, y |-> y, color |-> color,
     name |-> name, comp_type |-> comp_type, description |-> Truncated(description)]

DrawCylinder(x, y, color, name, comp_type, description) ==
    [kind |-> "node", family |-> "cylinder", x |-> x, y |-> y, color |-> color,
     name |-> name, comp_type |-> comp_type]

DrawHexagon(x, y, color, name, comp_type, description) ==
    [kind |-> "node", family |-> "hexagon", x |-> x, y |-> y, color |-> color,
     name |-> name, comp_type |-> comp_type]

DrawCircle(x, y, color, name, comp_type, description) ==
    [kind |-> "node", family |-> "circle", x |-> x, y |-> y, color |-> color,
     name |-> name, comp_type |-> comp_type]

DrawQueue(x, y, color, name, comp_type, description) ==
    [kind |-> "node", family |-> "queue", x |-> x, y |-> y, color |-> color,
     name |-> name, comp_type |-> comp_type]

\* mutant: only the shape argument selects the family
DrawShapeByShapeOnly(x, y, shape, color, name, comp_type, description) ==
    IF shape = "cylinder"
    THEN DrawCylinder(x, y, color, name, comp_type, description)
    ELSE IF shape = "hexagon"
    THEN DrawHexagon(x, y, color, name, comp_type, description)
    ELSE IF shape = "circle"
    THEN DrawCircle(x, y, color, name, comp_type, description)
    ELSE IF shape = "lightning"
    THEN DrawQueue(x, y, color, name, comp_type, description)
    ELSE DrawRoundedRect(x, y, color, name, comp_type, description)

DrawShape(x, y, shape, color, name, comp_type, description) ==
    IF shape = "cylinder" \/ comp_type = "database"
    THEN DrawCylinder(x, y, color, name, comp_type, description)
    ELSE IF shape = "hexagon" \/ comp_type = "gateway"
    THEN DrawHexagon(x, y, color, name, comp_type, description)
    ELSE IF shape = "circle"
    THEN DrawCircle(x, y, color, name, comp_type, description)
    ELSE IF shape = "lightning" \/ comp_type = "queue"
    THEN DrawQueue(x, y, color, name, comp_type, description)
    ELSE DrawRoundedRect(x, y, color, name, comp_type, description)

\* __init__ and _load_config: the generator object, loaded being the parsed
\* config file, or {} when it could not be read
Generator(loaded) ==
    [config |-> loaded,
     type_mapping |-> Get(loaded, "type_mapping", <<>>),
     node_styles |-> Get(loaded, "node_styles", <<>>),
     edge_styles |-> Get(loaded, "edge_styles", <<>>),
     global_config |-> Get(loaded, "global", <<>>),
     default_palette |-> default_palette]

\* mutant: the colour is taken from the loaded config's type_mapping first
NodeColorFromConfig(self, comp, comp_type) ==
    IF "color" \in DOMAIN comp /\ comp.color # ""
    THEN comp.color
    ELSE IF comp_type \in DOMAIN self.type_mapping
    THEN self.type_mapping[comp_type].fillcolor
    ELSE Get(self.default_palette, comp_type, "#6B7280")

\* comp.get('color') or self.default_palette.get(comp_type, '#6B7280')
NodeColor(self, comp, comp_type) ==
    IF "color" \in DOMAIN comp /\ comp.color # ""
    THEN comp.color
    ELSE Get(self.default_palette, comp_type, "#6B7280")

\* the body of the loop of _generate_modern_nodes for one positioned entry
NodeOf(self, e, positions) ==
    DrawShape(positions[e.name].x, positions[e.name].y,
              Get(e.comp, "shape", "rounded_rectangle"),
              NodeColor(self, e.comp, CompType(e.comp)),
              e.name, CompType(e.comp), Get(e.comp, "description", <<>>))

\* if name not in positions: continue
NodeRendered(e, positions) == e.name \in DOMAIN positions

RECURSIVE GenerateModernNodes(_, _, _)
GenerateModernNodes(self, components, positions) ==
    IF components = <<>> THEN <<>>
    ELSE LET e == components[Len(components)]
             before == GenerateModernNodes(self,
                                           SubSeq(components, 1, Len(components) - 1),
                                           positions)
         IN  IF NodeRendered(e, positions)
             THEN Append(before, NodeOf(self, e, positions))
             ELSE before

(***************************************************************************)
(* The edges: _generate_modern_edges and _draw_bezier_edge.  The vertices  *)
(* of the arrowhead (atan2, cos, sin) are not computed: the element says   *)
(* whether the polygon is there.                                           *)
(***************************************************************************)
T_request == <<"r", "e", "q", "u", "e", "s", "t">>
T_response == <<"r", "e", "s", "p", "o", "n", "s", "e">>
T_sync_call == <<"s", "y", "n", "c", "_", "c", "a", "l", "l">>
T_async_event == <<"a", "s", "y", "n", "c", "_", "e", "v", "e", "n", "t">>
T_read_write == <<"r", "e", "a", "d", "_", "w", "r", "i", "t", "e">>

\* mutant: a type that is not in color_map gets the colour of a request
EdgeColorDefaultRequest(rel_type) ==
    CASE rel_type = T_request -> "#3B82F6"
      [] rel_type = T_response -> "#10B981"
      [] rel_type = T_sync_call -> "#3B82F6"
      [] rel_type = T_async_event -> "#8B5CF6"
      [] rel_type = T_read_write -> "#EF4444"
      [] OTHER -> "#3B82F6"

\* color_map.get(rel_type, '#6B7280')
EdgeColor(rel_type) ==
    CASE rel_type = T_request -> "#3B82F6"
      [] rel_type = T_response -> "#10B981"
      [] rel_type = T_sync_call -> "#3B82F6"
      [] rel_type = T_async_event -> "#8B5CF6"
      [] rel_type = T_read_write -> "#EF4444"
      [] OTHER -> "#6B7280"

\* stroke_dasharray
DashArray(line_type) ==
    IF line_type = "dashed" THEN "8,4"
    ELSE IF line_type = "dotted" THEN "2,3"
    ELSE ""

\* label = rel_type.replace('_', ' ').title()
EdgeLabel(rel_type) == Title(ReplaceChar(rel_type, "_", " "))

DrawBezierEdge(x1, y1, x2, y2, line_type, rel_type, arrow) ==
    LET dx == RatSub(x2, x1)
        dy == y2 - y1
    IN  [kind |-> "edge",
         x1 |-> x1, y1 |-> RatInt(y1), x2 |-> x2, y2 |-> RatInt(y2),
         cx1 |-> RatAdd(x1, RatMul(dx, Rat(3, 10))),
         cy1 |-> RatAdd(Rat(10 * y1 + 3 * dy, 10), RatInt(30)),
         cx2 |-> RatAdd(x1, RatMul(dx, Rat(7, 10))),
         cy2 |-> RatAdd(Rat(10 * y1 + 7 * dy, 10), RatInt(30)),
         color |-> EdgeColor(rel_type),
         dash |-> DashArray(line_type),
         arrow |-> arrow,
         label |-> EdgeLabel(rel_type),
         mid_x |-> RatMul(RatAdd(x1, x2), Rat(1, 2)),
         mid_y |-> RatAdd(Rat(y1 + y2, 2), RatInt(20)),
         label_width |-> Len(EdgeLabel(rel_type)) * 7]

\* mutant: a relationship from a component to itself is skipped
EdgeRenderedNoSelfLoop(rel, positions) ==
    /\ "from" \in DOMAIN rel /\ rel.from \in DOMAIN positions
    /\ "to" \in DOMAIN rel /\ rel.to \in DOMAIN positions
    /\ rel.from # rel.to

\* not (from_name not in positions or to_name not in positions); rel.get gives
\* None, never a key of positions, for a missing 'from' or 'to'
EdgeRendered(rel, positions) ==
    /\ "from" \in DOMAIN rel /\ rel.from \in DOMAIN positions
    /\ "to" \in DOMAIN rel /\ rel.to \in DOMAIN positions

\* the body of the loop of _generate_modern_edges for one resolved relationship
EdgeOf(rel, positions) ==
    DrawBezierEdge(positions[rel.from].x, positions[rel.from].y,
                   positions[rel.to].x, positions[rel.to].y,
                   Get(rel, "line", "solid"), Get(rel, "type", T_request),
                   Get(rel, "arrow", TRUE))

\* mutant: the loop ends at the first unresolved relationship (break for continue)
RECURSIVE GenerateModernEdgesBreak(_, _)
GenerateModernEdgesBreak(relationships, positions) ==
    IF relationships = <<>> THEN <<>>
    ELSE LET rel == relationships[Len(relationships)]
             rest == SubSeq(relationships, 1, Len(relationships) - 1)
             before == GenerateModernEdgesBreak(rest, positions)
         IN  IF \A k \in 1..Len(relationships) : EdgeRendered(relationships[k], positions)
             THEN Append(before, EdgeOf(rel, positions))
             ELSE before

RECURSIVE GenerateModernEdges(_, _)
GenerateModernEdges(relationships, positions) ==
    IF relationships = <<>> THEN <<>>
    ELSE LET rel == relationships[Len(relationships)]
             before == GenerateModernEdges(
                           SubSeq(relationships, 1, Len(relationships) - 1), positions)
         IN  IF EdgeRendered(rel, positions)
             THEN Append(before, EdgeOf(rel, positions))
             ELSE before

(***************************************************************************)
(* The document: generate_diagram_svg.                                     *)
(***************************************************************************)
SvgHeader == [kind |-> "svg", width |-> canvas_width, height |-> canvas_height]

GenerateBackground == [kind |-> "background"]

GenerateTitle(topic) == [kind |-> "title", text |-> topic, width |-> Len(topic) * 15 + 40]

SvgClose == [kind |-> "close"]

\* mutant: the placeholder names the default topic
GenerateEmptyDiagramDefaultTopic(topic) ==
    <<[kind |-> "placeholder", text |-> "No components found for: Architecture"]>>

GenerateEmptyDiagram(topic) ==
    <<[kind |-> "placeholder", text |-> "No components found for: " \o topic]>>

\* data.get('components', {})
Components(d) == Get(d, "components", <<>>)

\* data.get('relationships', [])
Relationships(d) == Get(d, "relationships", <<>>)

\* data.get('topic', 'Architecture')
Topic(d) == Get(d, "topic", "Architecture")

\* mutant: the nodes are appended before the edges
SvgContentNodesFirst(self, d, positions) ==
    <<SvgHeader, GenerateBackground, GenerateTitle(Topic(d))>>
        \o GenerateModernNodes(self, Components(d), positions)
        \o GenerateModernEdges(Relationships(d), positions)
        \o <<SvgClose>>

\* svg_content = '\n'.join(svg_parts)
SvgContent(self, d, positions) ==
    <<SvgHeader, GenerateBackground, GenerateTitle(Topic(d))>>
        \o GenerateModernEdges(Relationships(d), positions)
        \o GenerateModernNodes(self, Components(d), positions)
        \o <<SvgClose>>

\* Path(f"{output}.svg")
SvgFile(output) == output \o ".svg"

(***************************************************************************)
(* State.                                                                  *)
(***************************************************************************)
VARIABLES
    data,            \* the graph dict handed to the generator
    pc,              \* "build", "laid", "returned" or "raised"
    node_positions,  \* the dict _calculate_hierarchical_layout returned last
    svg_content,     \* the document the last call returned
    steps,           \* the methods the last call of generate_diagram_svg ran
    generator,       \* the generator object the last call built
    files,           \* the file system: file name -> what the file holds
    first_return,    \* what the first call that returned gave back
    calls,           \* the number of calls of generate_svg_diagram so far
    request,         \* the endpoint's topic, level, valid_links and raw_content
    architecture,    \* the dict generate_architecture returned, as it is now
    generated,       \* that dict as it was when generate_architecture returned
    llm_calls,       \* the number of calls of call_llm so far
    llm_reply,       \* what the last call of call_llm did
    endpoint_response,  \* the ArchitectureResponse the endpoint returned
    env,             \* the API keys llm_client read from the environment at import
    client,          \* the module global _client of llm_client
    constructed,     \* the number of HybridLLMClient objects built so far
    threads,         \* the threads inside get_llm_client: position and locals
    llm_call,        \* the arguments of the last call of generate or call_llm
    invoked,         \* the providers that call invoked, in order
    llm_result,      \* how that call ended
    served,          \* the requests being served at once: position and locals
    objects          \* the graphs and generators those requests have allocated

\* the variables of generate_architecture_endpoint
endpoint ==
    <<request, architecture, generated, llm_calls, llm_reply, endpoint_response>>

\* the variables of llm_client
llm == <<env, client, constructed, threads, llm_call, invoked, llm_result>>

vars == <<data, pc, node_positions, svg_content, steps, generator, files,
          first_return, calls, request, architecture, generated, llm_calls,
          llm_reply, endpoint_response, env, client, constructed, threads,
          llm_call, invoked, llm_result, served, objects>>

ComponentNames(components) == {components[i].name : i \in 1..Len(components)}

(***************************************************************************)
(* Inputs.                                                                 *)
(***************************************************************************)
AllNames == <<"A", "B", "C", "D", "E", "F">>

NamesUpTo(k) == {AllNames[i] : i \in 1..k}

\* the keys of default_palette: the fixed enumeration of semantic types
KnownTypes == {"client", "gateway", "microservice", "database", "cache",
               "queue", "external", "infrastructure"}

\* an unrecognized type and two spellings that only .lower() recognizes
OtherTypes == {"widget", "Client", "DATABASE"}

\* a component dict with each type, and one without the 'type' key
TypedComps == {[type |-> t] : t \in KnownTypes \cup OtherTypes}
                  \cup {[description |-> <<>>]}

\* a component dict for each of the four layers
LayoutComps == {[type |-> t] : t \in {"client", "gateway", "microservice", "database"}}

\* components as the synthesis step describes them: bare, and with every hint
RenderComps ==
    {[type |-> "client"],
     [type |-> "microservice", shape |-> "rounded_square", color |-> "#50C878",
      description |-> <<"C", "o", "r", "e">>]}

\* relationships between "A" and "B"; one whose target is no component; one
\* without a source
RenderRels ==
    {[from |-> "A", to |-> "B", type |-> T_request, line |-> "solid", arrow |-> TRUE],
     [from |-> "B", to |-> "A", type |-> T_sync_call],
     [from |-> "A", to |-> "Ghost", type |-> T_read_write, line |-> "dashed"],
     [to |-> "B", type |-> T_async_event]}

\* the one relationship of the graphs that are rendered repeatedly
RepeatRels == {[from |-> "A", to |-> "B", type |-> T_request, line |-> "solid",
                arrow |-> TRUE]}

Topics == {"Shop"}

\* a text of n characters
Text(n) == [k \in 1..n |-> LowerCase[((k - 1) % Len(LowerCase)) + 1]]

\* description lengths: none, and those around the threshold
DescLens == {0} \cup ((TruncateAt - 1)..MaxDescLen)

\* components with descriptions of these lengths, drawn as rounded rectangles
\* (microservice) or not (database), and one without a description
DescribedComps ==
    {[type |-> "microservice", description |-> Text(n)] : n \in DescLens}
        \cup {[type |-> "database", description |-> Text(MaxDescLen)],
              [type |-> "widget"]}

\* the config file: unreadable, or design rules that style the client type
Configs == {<<>>,
            [type_mapping |-> [client |-> [shape |-> "circle", fillcolor |-> "#000000"]]]}

\* the output argument: none, or the default name
Outputs == {"", "architecture"}

\* what the file system does to open(svg_file, 'w') and f.write(svg_content)
IoOutcomes == {"ok", "open_fails", "write_fails"}

Init ==
    /\ data = <<>>
    /\ pc = "build"
    /\ node_positions = <<>>
    /\ svg_content = <<>>
    /\ steps = <<>>
    /\ generator = <<>>
    /\ files = <<>>
    /\ first_return = <<>>
    /\ calls = 0
    /\ request = <<>>
    /\ architecture = <<>>
    /\ generated = <<>>
    /\ llm_calls = 0
    /\ llm_reply = <<>>
    /\ endpoint_response = <<>>
    /\ env = <<>>
    /\ client = <<>>
    /\ constructed = 0
    /\ threads = [t \in 1..MaxThreads |-> [pc |-> "outside"]]
    /\ llm_call = <<>>
    /\ invoked = <<>>
    /\ llm_result = <<>>
    /\ served = [r \in 1..MaxRequests |-> [pc |-> "waiting"]]
    /\ objects = <<>>

\* the caller puts one more entry into the components mapping
\* a relationship type that is not in color_map
T_mirror == <<"m", "i", "r", "r", "o", "r">>

\* components of a known and of an unknown type
TolerantComps == {[type |-> "client"], [type |-> "widget"], [type |-> "database"]}

\* self-loops, and a relationship of an unknown type and line style
TolerantRels ==
    {[from |-> "A", to |-> "A", type |-> T_request],
     [from |-> "B", to |-> "B", type |-> T_sync_call, line |-> "dotted",
      arrow |-> FALSE],
     [from |-> "A", to |-> "B", type |-> T_mirror, line |-> "wavy"]}

\* relationships with and without a label of their own
LabelledRels ==
    {[from |-> "A", to |-> "B", type |-> T_sync_call,
      label |-> <<"c", "a", "l", "l", "s">>],
     [from |-> "A", to |-> "B", type |-> T_read_write],
     [from |-> "B", to |-> "A", label |-> <<"o", "w", "n", "s">>]}

\* the types and the shape hints of the components whose shape is drawn
ShapedTypes == {"database", "DATABASE", "gateway", "queue", "client"}
ShapeHints == {"cylinder", "hexagon", "circle", "lightning", "rounded_square"}

ShapedComps ==
    {[type |-> t] : t \in ShapedTypes}
        \cup {[type |-> t, shape |-> h] : t \in ShapedTypes, h \in ShapeHints}
        \cup {[shape |-> h] : h \in ShapeHints}

AddComponent(names, comps, limit) ==
    /\ pc = "build"
    /\ Len(Components(data)) < limit
    /\ \E n \in names \ ComponentNames(Components(data)), c \in comps :
          data' = ("components" :> Append(Components(data), [name |-> n, comp |-> c]))
                      @@ data
    /\ UNCHANGED <<pc, node_positions, svg_content, steps, generator, files,
                   first_return, calls>>
    /\ UNCHANGED endpoint
    /\ UNCHANGED <<llm, served, objects>>

\* the caller gives the graph an empty components mapping
PutComponents ==
    /\ pc = "build"
    /\ "components" \notin DOMAIN data
    /\ data' = ("components" :> <<>>) @@ data
    /\ UNCHANGED <<pc, node_positions, svg_content, steps, generator, files,
                   first_return, calls>>
    /\ UNCHANGED endpoint
    /\ UNCHANGED <<llm, served, objects>>

\* the caller appends one more relationship
AddRelationship(rels, limit) ==
    /\ pc = "build"
    /\ Len(Relationships(data)) < limit
    /\ \E r \in rels :
          data' = ("relationships" :> Append(Relationships(data), r)) @@ data
    /\ UNCHANGED <<pc, node_positions, svg_content, steps, generator, files,
                   first_return, calls>>
    /\ UNCHANGED endpoint
    /\ UNCHANGED <<llm, served, objects>>

\* the caller names the topic
PutTopic(topics) ==
    /\ pc = "build"
    /\ "topic" \notin DOMAIN data
    /\ \E t \in topics : data' = ("topic" :> t) @@ data
    /\ UNCHANGED <<pc, node_positions, svg_content, steps, generator, files,
                   first_return, calls>>
    /\ UNCHANGED endpoint
    /\ UNCHANGED <<llm, served, objects>>

\* node_positions = self._calculate_hierarchical_layout(components, relationships)
CalculateLayout ==
    /\ pc = "build"
    /\ Components(data) # <<>>
    /\ node_positions' = CalculateHierarchicalLayout(Components(data))
    /\ pc' = "laid"
    /\ UNCHANGED <<data, svg_content, steps, generator, files, first_return, calls>>
    /\ UNCHANGED endpoint
    /\ UNCHANGED <<llm, served, objects>>

\* a strict prefix of the document: what a failed write leaves in the file
PartialContents(content) == {<<>>, SubSeq(content, 1, Len(content) - 1)}

\* generate_svg_diagram(data, output, config_file): a fresh generator, then
\* generate_diagram_svg(data, output)
GenerateSvgDiagramTo(outputs, limit) ==
    /\ pc \in {"build", "returned", "raised"}
    /\ calls < limit
    /\ calls' = calls + 1
    /\ UNCHANGED data
    /\ UNCHANGED endpoint
    /\ UNCHANGED <<llm, served, objects>>
    /\ \E loaded \in Configs, output \in outputs, io \in IoOutcomes :
          LET self == Generator(loaded)
              positions == CalculateHierarchicalLayout(Components(data))
              content == SvgContent(self, data, positions)
              drawn == <<"layout", "header", "background", "title", "edges", "nodes">>
              returned(doc, pos) ==
                  /\ pc' = "returned"
                  /\ svg_content' = doc
                  /\ first_return' = IF first_return = <<>>
                                     THEN [svg_content |-> doc, node_positions |-> pos,
                                           config |-> loaded]
                                     ELSE first_return
              raised ==
                  /\ pc' = "raised"
                  /\ svg_content' = <<>>
                  /\ UNCHANGED first_return
          IN  /\ generator' = self
              /\ IF Components(data) = <<>>
                 THEN /\ steps' = <<"empty_diagram">>
                      /\ node_positions' = <<>>
                      /\ returned(GenerateEmptyDiagram(Topic(data)), <<>>)
                      /\ UNCHANGED files
                 ELSE /\ node_positions' = positions
                      /\ IF output = ""
                         THEN /\ steps' = drawn
                              /\ returned(content, positions)
                              /\ UNCHANGED files
                         ELSE /\ steps' = Append(drawn, "write")
                              /\ CASE io = "ok" ->
                                        /\ files' = (SvgFile(output) :> content) @@ files
                                        /\ returned(content, positions)
                                   [] io = "open_fails" ->
                                        /\ UNCHANGED files
                                        /\ raised
                                   [] io = "write_fails" ->
                                        /\ \E part \in PartialContents(content) :
                                              files' = (SvgFile(output) :> part) @@ files
                                        /\ raised

\* the call with the output argument left at its default or emptied
GenerateSvgDiagram(limit) == GenerateSvgDiagramTo(Outputs, limit)

(***************************************************************************)
(* generate_architecture.  A response of the LLM is a text of one of four  *)
(* forms carrying the JSON value written in it; a JSON value is its Python *)
(* type and its value.  A mapping is the sequence of its entries, a list   *)
(* the sequence of its items.                                              *)
(***************************************************************************)
Chars(text) ==
    CASE text = "Shop" -> <<"S", "h", "o", "p">>
      [] text = "User interface" ->
            <<"U", "s", "e", "r", " ", "i", "n", "t", "e", "r", "f", "a", "c", "e">>
      [] text = "Request router" ->
            <<"R", "e", "q", "u", "e", "s", "t", " ", "r", "o", "u", "t", "e", "r">>
      [] text = " service" -> <<" ", "s", "e", "r", "v", "i", "c", "e">>
      [] text = "Data storage" ->
            <<"D", "a", "t", "a", " ", "s", "t", "o", "r", "a", "g", "e">>

GetFallbackArchitecture(topic, level) ==
    [components |->
        <<[name |-> "Client",
           comp |-> [type |-> "client", shape |-> "rounded_rectangle",
                     color |-> "#4A90E2", description |-> Chars("User interface")]],
          [name |-> "API Gateway",
           comp |-> [type |-> "gateway", shape |-> "hexagon",
                     color |-> "#7B68EE", description |-> Chars("Request router")]],
          [name |-> "Core Service",
           comp |-> [type |-> "microservice", shape |-> "rounded_square",
                     color |-> "#50C878",
                     description |-> Chars(topic) \o Chars(" service")]],
          [name |-> "Database",
           comp |-> [type |-> "database", shape |-> "cylinder",
                     color |-> "#FF6B6B", description |-> Chars("Data storage")]]>>,
     relationships |->
        <<[from |-> "Client", to |-> "API Gateway", type |-> T_request,
           line |-> "solid", arrow |-> TRUE],
          [from |-> "API Gateway", to |-> "Core Service", type |-> T_sync_call,
           line |-> "solid", arrow |-> TRUE],
          [from |-> "Core Service", to |-> "Database", type |-> T_read_write,
           line |-> "solid", arrow |-> TRUE]>>]

None == [type |-> "NoneType"]

\* json.loads(response): the whole text has to be one JSON value
JsonLoads(response) ==
    IF response.form = "json" THEN response.value ELSE None

\* re.search(r'```(?:json)?\s*(\{.*?\})\s*```', ...) and json.loads of the group
FencedJson(response) ==
    IF response.form = "fenced" THEN response.value ELSE None

\* response[response.find('{') : response.rfind('}') + 1] and json.loads of it
EmbeddedJson(response) ==
    IF response.form \in {"fenced", "embedded"} THEN response.value ELSE None

\* the three attempts in their order; a failed attempt falls through to the
\* next, a parsed null ends the function as any other value does
ExtractJsonFromResponse(response) ==
    IF response.form = "json" THEN JsonLoads(response)
    ELSE IF response.form = "fenced" THEN FencedJson(response)
    ELSE IF response.form = "embedded" THEN EmbeddedJson(response)
    ELSE None

\* bool(value) of Python
Truthy(value) ==
    CASE value.type = "NoneType" -> FALSE
      [] value.type = "dict" -> DOMAIN value.value # {}
      [] value.type = "list" -> value.value # <<>>
      [] value.type = "str" -> value.value # ""

\* bool(architecture.get(key)): a missing key gives None, an empty collection is false
MemberTruthy(d, key) == key \in DOMAIN d /\ d[key] # <<>>

\* the test of line 122: "raises" when .get is called on what is no dict
Usable(parsed) ==
    IF ~Truthy(parsed) THEN "no"
    ELSE IF parsed.type # "dict" THEN "raises"
    ELSE IF MemberTruthy(parsed.value, "components")
              /\ MemberTruthy(parsed.value, "relationships")
         THEN "yes"
         ELSE "no"

Whitespace == {" ", "\n", "\t"}

\* str.strip()
RECURSIVE Strip(_)
Strip(text) ==
    IF text = <<>> THEN text
    ELSE IF text[1] \in Whitespace THEN Strip(Tail(text))
    ELSE IF text[Len(text)] \in Whitespace THEN Strip(SubSeq(text, 1, Len(text) - 1))
    ELSE text

\* mutant: the length is taken of the content as it came
TooSmallUnstripped(raw_content) ==
    \/ raw_content.type = "NoneType"
    \/ raw_content.value = <<>>
    \/ Len(raw_content.value) < MinContent

\* not raw_content or len(raw_content.strip()) < 100
TooSmall(raw_content) ==
    \/ raw_content.type = "NoneType"
    \/ raw_content.value = <<>>
    \/ Len(Strip(raw_content.value)) < MinContent

\* what generate_architecture returns when call_llm did what reply says
ArchitectureFrom(topic, level, reply) ==
    IF reply.outcome = "raises" THEN GetFallbackArchitecture(topic, level)
    ELSE IF Usable(ExtractJsonFromResponse(reply.response)) = "yes"
    THEN ExtractJsonFromResponse(reply.response).value
    ELSE GetFallbackArchitecture(topic, level)

\* the content scraped: lead blanks, body characters with a blank inside,
\* trail blanks
RawContent(lead, body, trail) ==
    [k \in 1..lead |-> " "]
        \o [k \in 1..body |-> IF k = 2 /\ body > 2 THEN " " ELSE "x"]
        \o [k \in 1..trail |-> IF k = 1 THEN "\n" ELSE " "]

Pads == {0, 2}

ContentLens == {0, MinContent - 1, MinContent, MaxContent}

Contents ==
    {None} \cup {[type |-> "str", value |-> RawContent(lead, body, trail)] :
                    lead \in Pads, body \in ContentLens, trail \in Pads}

\* the content the endpoint gets from scrape_multiple: nothing, too little, enough
ScrapedContents ==
    {[type |-> "str", value |-> <<>>],
     [type |-> "str", value |-> RawContent(2, MinContent - 1, 2)],
     [type |-> "str", value |-> RawContent(0, MinContent, 0)]}

Levels == {"hld", "LLD"}

Links == {<<"https://example.com/shop">>}

\* a graph as the prompt asks for it
LlmGraph ==
    [components |->
        <<[name |-> "Web",
           comp |-> [type |-> "frontend", shape |-> "circle", color |-> "#111111"]],
          [name |-> "Store", comp |-> [type |-> "cache"]]>>,
     relationships |->
        <<[from |-> "Web", to |-> "Store", type |-> T_async_event,
           line |-> "dashed"]>>]

\* the same graph with its components written as a JSON array of objects
ListedGraph ==
    [components |-> <<[name |-> "Web", type |-> "frontend"],
                      [name |-> "Store", type |-> "cache"]>>,
     relationships |-> LlmGraph.relationships]

\* the JSON objects a response may hold
Objects ==
    {LlmGraph,
     ListedGraph,
     [components |-> LlmGraph.components],
     [relationships |-> LlmGraph.relationships],
     [components |-> LlmGraph.components, relationships |-> <<>>],
     [components |-> <<>>, relationships |-> LlmGraph.relationships],
     <<>>}

Responses ==
    {[form |-> "prose"]}
        \cup {[form |-> f, value |-> [type |-> "dict", value |-> o]] :
                 f \in {"json", "fenced", "embedded"}, o \in Objects}
        \cup {[form |-> "json", value |-> v] :
                 v \in {None,
                        [type |-> "list", value |-> LlmGraph.relationships],
                        [type |-> "list", value |-> <<>>],
                        [type |-> "str", value |-> "ok"],
                        [type |-> "str", value |-> ""]}}

\* what call_llm does
LlmReplies ==
    {[outcome |-> "raises"]}
        \cup {[outcome |-> "returns", response |-> r] : r \in Responses}

\* what call_llm does in the runs of the endpoint
EndpointReplies ==
    {[outcome |-> "raises"],
     [outcome |-> "returns",
      response |-> [form |-> "json", value |-> [type |-> "dict", value |-> LlmGraph]]],
     [outcome |-> "returns",
      response |-> [form |-> "fenced",
                    value |-> [type |-> "dict", value |-> ListedGraph]]]}

\* the arguments of a call of generate_architecture
PutArguments(topics, levels, contents) ==
    /\ pc = "build"
    /\ request = <<>>
    /\ \E topic \in topics, level \in levels, raw_content \in contents :
          request' = [topic |-> topic, level |-> level, raw_content |-> raw_content]
    /\ pc' = "requested"
    /\ UNCHANGED <<data, node_positions, svg_content, steps, generator, files,
                   first_return, calls>>
    /\ UNCHANGED <<architecture, generated, llm_calls, llm_reply, endpoint_response>>
    /\ UNCHANGED <<llm, served, objects>>

\* lines 16-20 of the endpoint: extract_topic asks the LLM once and lets its
\* failure through
GatherContent(topics, levels, links, contents) ==
    /\ pc = "build"
    /\ request = <<>>
    /\ llm_calls' = llm_calls + 1
    /\ \/ /\ \E topic \in topics, level \in levels, valid_links \in links,
               raw_content \in contents :
                request' = [topic |-> topic, level |-> level,
                            valid_links |-> valid_links, raw_content |-> raw_content]
          /\ pc' = "requested"
       \/ /\ pc' = "failed"
          /\ UNCHANGED request
    /\ UNCHANGED <<data, node_positions, svg_content, steps, generator, files,
                   first_return, calls>>
    /\ UNCHANGED <<architecture, generated, llm_reply, endpoint_response>>
    /\ UNCHANGED <<llm, served, objects>>

GenerateArchitecture(replies) ==
    /\ pc = "requested"
    /\ IF TooSmall(request.raw_content)
       THEN /\ architecture' = GetFallbackArchitecture(request.topic, request.level)
            /\ UNCHANGED <<llm_calls, llm_reply>>
       ELSE \E reply \in replies :
                /\ llm_calls' = llm_calls + 1
                /\ llm_reply' = reply
                /\ architecture' = ArchitectureFrom(request.topic, request.level, reply)
    /\ generated' = architecture'
    /\ pc' = "generated"
    /\ UNCHANGED <<data, node_positions, svg_content, steps, generator, files,
                   first_return, calls>>
    /\ UNCHANGED <<request, endpoint_response>>
    /\ UNCHANGED <<llm, served, objects>>

(***************************************************************************)
(* The endpoint after generate_architecture.                               *)
(***************************************************************************)
Upper(s) ==
    CASE s = "hld" -> "HLD"
      [] OTHER -> s

\* str.replace(' ', '_') of a lowered topic
Underscored(s) ==
    CASE s = "chat app" -> "chat_app"
      [] OTHER -> s

\* f"{topic.lower().replace(' ', '_')}_{req.level}_diagram"
DiagramFilename(topic, level) ==
    Underscored(Lower(topic)) \o "_" \o level \o "_diagram"

\* the value has .items(): it is a mapping, a sequence of entries
IsMapping(value) ==
    \A i \in 1..Len(value) : DOMAIN value[i] = {"name", "comp"}

\* the layer hint of lines 67-76
LayerHint(ctype) ==
    IF ctype \in {"client", "frontend"} THEN "client"
    ELSE IF ctype \in {"gateway", "load_balancer"} THEN "edge"
    ELSE IF ctype \in {"microservice", "service"} THEN "service"
    ELSE IF ctype \in {"database", "cache"} THEN "data"
    ELSE "external"

\* mutant: 'layer' is set and 'shape' and 'color' stay
NormalizedCompKeepHints(comp) ==
    [k \in DOMAIN comp \cup {"layer"} |->
        IF k = "layer" THEN LayerHint(Get(comp, "type", "")) ELSE comp[k]]

\* comp after the body of the first loop: 'layer' set, 'shape' and 'color' popped
NormalizedComp(comp) ==
    [k \in (DOMAIN comp \ {"shape", "color"}) \cup {"layer"} |->
        IF k = "layer" THEN LayerHint(Get(comp, "type", "")) ELSE comp[k]]

\* rel after the body of the second loop: 'line' popped
NormalizedRel(rel) == [k \in DOMAIN rel \ {"line"} |-> rel[k]]

\* the architecture dict after normalize_for_diagram ran on it: the components
\* and the relationships are the caller's objects, changed in place
NormalizeForDiagram(arch) ==
    [arch EXCEPT
        !.components = [i \in 1..Len(@) |->
                           [name |-> @[i].name, comp |-> NormalizedComp(@[i].comp)]],
        !.relationships = [i \in 1..Len(@) |-> NormalizedRel(@[i])]]

\* lines 30-36 of the endpoint; components.items() raises on what is no
\* mapping and the endpoint's except clause ends the diagram
PrepareDiagram ==
    /\ pc = "generated"
    /\ IF IsMapping(architecture.components)
       THEN /\ architecture' = NormalizeForDiagram(architecture)
            /\ data' = [topic |-> request.topic \o " - " \o Upper(request.level),
                        components |-> architecture'.components,
                        relationships |-> architecture'.relationships]
            /\ pc' = "build"
       ELSE /\ pc' = "diagram_failed"
            /\ UNCHANGED <<architecture, data>>
    /\ UNCHANGED <<node_positions, svg_content, steps, generator, files,
                   first_return, calls>>
    /\ UNCHANGED <<request, generated, llm_calls, llm_reply, endpoint_response>>
    /\ UNCHANGED <<llm, served, objects>>

\* lines 37-40 of the endpoint
RenderDiagram ==
    /\ request # <<>>
    /\ GenerateSvgDiagramTo({DiagramFilename(request.topic, request.level)}, 1)

\* lines 42-52 of the endpoint: a failed diagram is printed and passed over;
\* ArchitectureResponse takes components only if they are a Dict
Respond ==
    /\ pc \in {"returned", "raised", "diagram_failed"}
    /\ request # <<>>
    /\ IF IsMapping(Get(architecture, "components", <<>>))
       THEN /\ endpoint_response' =
                   [topic |-> request.topic,
                    level |-> request.level,
                    components |-> Get(architecture, "components", <<>>),
                    relationships |-> Get(architecture, "relationships", <<>>),
                    resources |-> request.valid_links]
            /\ pc' = "responded"
       ELSE /\ pc' = "failed"
            /\ UNCHANGED endpoint_response
    /\ UNCHANGED <<data, node_positions, svg_content, steps, generator, files,
                   first_return, calls>>
    /\ UNCHANGED <<request, architecture, generated, llm_calls, llm_reply>>
    /\ UNCHANGED <<llm, served, objects>>

(***************************************************************************)
(* SpecLayer: graphs of up to MaxTypedComps components of every type, laid *)
(* out.                                                                    *)
(***************************************************************************)
AddTypedComponent ==
    AddComponent(NamesUpTo(MaxTypedComps + 1), TypedComps, MaxTypedComps)

NextLayer == AddTypedComponent \/ CalculateLayout

SpecLayer == Init /\ [][NextLayer]_vars

(***************************************************************************)
(* SpecLayout: graphs of up to MaxLayoutComps components, one type per     *)
(* layer, in every insertion order, laid out.                              *)
(***************************************************************************)
AddLayoutComponent ==
    AddComponent(NamesUpTo(MaxLayoutComps), LayoutComps, MaxLayoutComps)

NextLayout == AddLayoutComponent \/ CalculateLayout

SpecLayout == Init /\ [][NextLayout]_vars

(***************************************************************************)
(* Spec: a graph of up to MaxComps components and MaxRels relationships is *)
(* put together, then rendered, once as in the endpoint.                   *)
(***************************************************************************)
AddRenderComponent == AddComponent(NamesUpTo(MaxComps), RenderComps, MaxComps)

AddRenderRelationship == AddRelationship(RenderRels, MaxRels)

PutRenderTopic == PutTopic(Topics)

RenderOnce == GenerateSvgDiagram(1)

Next ==
    \/ AddRenderComponent
    \/ PutComponents
    \/ AddRenderRelationship
    \/ PutRenderTopic
    \/ RenderOnce

Spec == Init /\ [][Next]_vars

(***************************************************************************)
(* SpecRepeat: one graph rendered up to MaxCalls times, each time by a     *)
(* fresh generator that may or may not find its config file, to any       *)
(* output.                                                                 *)
(***************************************************************************)
AddRepeatRelationship == AddRelationship(RepeatRels, MaxRels)

RenderAgain == GenerateSvgDiagram(MaxCalls)

NextRepeat ==
    \/ AddRenderComponent
    \/ AddRepeatRelationship
    \/ RenderAgain

SpecRepeat == Init /\ [][NextRepeat]_vars

(***************************************************************************)
(* SpecDescription: components with descriptions around the truncation     *)
(* threshold, rendered.                                                    *)
(***************************************************************************)
AddDescribedComponent == AddComponent(NamesUpTo(MaxComps), DescribedComps, MaxComps)

NextDescription == AddDescribedComponent \/ RenderOnce

SpecDescription == Init /\ [][NextDescription]_vars

(***************************************************************************)
(* What the claims speak of.                                               *)
(***************************************************************************)
Range(s) == {s[i] : i \in 1..Len(s)}

\* the lower-cased type of a component, "" when it has none
StatedType(comp) == IF "type" \in DOMAIN comp THEN Lower(comp.type) ELSE ""

\* the layer the specification assigns to a lower-cased type
StatedLayer(t) ==
    CASE t = "client" -> "client"
      [] t \in {"gateway", "external"} -> "gateway"
      [] t \in {"database", "cache", "queue"} -> "data"
      [] OTHER -> "service"

\* client < gateway < service < data
LayerRank(l) ==
    CASE l = "client" -> 1
      [] l = "gateway" -> 2
      [] l = "service" -> 3
      [] l = "data" -> 4

Entries == Range(Components(data))

EntryLayer(e) == StatedLayer(StatedType(e.comp))

\* the index of an entry in the components mapping's iteration order
EntryIndex(e) == CHOOSE i \in 1..Len(Components(data)) : Components(data)[i] = e

SameLayer(e) == {f \in Entries : EntryLayer(f) = EntryLayer(e)}

\* C1: every component is in exactly one of the four layer lists, the one
\* its lower-cased type names: client -> client; gateway, external ->
\* gateway; database, cache, queue -> data; anything else, or no type ->
\* service.
C1_LayerAssignmentTotal ==
    pc = "laid" =>
        \A e \in Entries : \A l \in LayerNames :
            (e.name \in Range(Layers(Components(data))[l])) <=> (l = EntryLayer(e))

C1_Witness ==
    /\ pc = "laid"
    /\ \E e, f \in Entries :
          /\ "type" \notin DOMAIN e.comp
          /\ e.name \in Range(Layers(Components(data))["service"])
          /\ "type" \in DOMAIN f.comp /\ f.comp.type = "external"
          /\ f.name \in Range(Layers(Components(data))["gateway"])

\* C2: positions respect the layer order: a component of an earlier layer
\* has a strictly smaller y than a component of a later layer, and the
\* components of one layer share one y.
C2_LayerOrderRespected ==
    pc = "laid" =>
        \A e, f \in Entries :
            /\ e.name \in DOMAIN node_positions
            /\ LayerRank(EntryLayer(e)) < LayerRank(EntryLayer(f))
                  => node_positions[e.name].y < node_positions[f.name].y
            /\ EntryLayer(e) = EntryLayer(f)
                  => node_positions[e.name].y = node_positions[f.name].y

\* a data component inserted first, a client component inserted last
C2_Witness ==
    /\ pc = "laid"
    /\ Len(Components(data)) >= 3
    /\ EntryLayer(Components(data)[1]) = "data"
    /\ EntryLayer(Components(data)[Len(Components(data))]) = "client"
    /\ node_positions[Components(data)[1].name].y
          > node_positions[Components(data)[Len(Components(data))].name].y

\* the layers before layer l that have a member
NonEmptyBefore(l) ==
    {EntryLayer(f) : f \in {g \in Entries : LayerRank(EntryLayer(g)) < LayerRank(l)}}

\* C3: the k-th non-empty layer is at y = 150 + 180 * (k - 1): empty layers
\* take no vertical room.
C3_EmptyLayersReserveNoGap ==
    pc = "laid" =>
        \A e \in Entries :
            /\ e.name \in DOMAIN node_positions
            /\ node_positions[e.name].y
                  = 150 + 180 * Cardinality(NonEmptyBefore(EntryLayer(e)))

\* only the gateway and data layers have members: data is second, at 330
C3_Witness ==
    /\ pc = "laid"
    /\ {EntryLayer(e) : e \in Entries} = {"gateway", "data"}
    /\ \E e \in Entries : EntryLayer(e) = "data" /\ node_positions[e.name].y = 330

\* 150 + (i + 0.5) * (1100 / N)
CellMidpoint(i, N) == Rat(300 * N + (2 * i + 1) * 1100, 2 * N)

C5_InsertionOrderLeftToRight ==
    pc = "laid" =>
        \A e \in Entries : \A f \in SameLayer(e) :
            /\ e.name \in DOMAIN node_positions
            /\ (EntryIndex(e) < EntryIndex(f))
                  <=> RatLess(node_positions[e.name].x, node_positions[f.name].x)

\* "B" was inserted before "A" in the same layer and is left of it
C5_Witness ==
    /\ pc = "laid"
    /\ \E e \in Entries : \E f \in SameLayer(e) :
          /\ e.name = "B" /\ f.name = "A"
          /\ EntryIndex(e) < EntryIndex(f)
          /\ RatLess(node_positions[e.name].x, node_positions[f.name].x)

\* the elements of a kind in the returned document, in document order
Elements(kind) == SelectSeq(svg_content, LAMBDA el : el.kind = kind)

\* C6: the positions' key set is the components' key set, and the document
\* has exactly one shape per component.
C6_LayoutTotal ==
    (pc = "returned" /\ Components(data) # <<>>) =>
        /\ DOMAIN node_positions = ComponentNames(Components(data))
        /\ Len(Elements("node")) = Len(Components(data))
        /\ \A e \in Entries :
              Cardinality({k \in 1..Len(Elements("node")) :
                              Elements("node")[k].name = e.name}) = 1

\* two components, one of them placed by the final else of the layer choice
C6_Witness ==
    /\ pc = "returned"
    /\ Len(Components(data)) = 2
    /\ \E e \in Entries : CompType(e.comp) = "microservice"
    /\ DOMAIN node_positions = {"A", "B"}
    /\ Len(Elements("node")) = 2

\* C7: a later call on the same graph returns the positions and the document
\* the first call returned, whatever config file the generator found and
\* whatever was written before.
C7_Deterministic ==
    (pc = "returned" /\ calls >= 2 /\ first_return # <<>>) =>
        /\ svg_content = first_return.svg_content
        /\ node_positions = first_return.node_positions

\* the second call's generator loaded design rules, the first one's did not
C7_Witness ==
    /\ pc = "returned"
    /\ calls = 2
    /\ first_return # <<>>
    /\ first_return.config = <<>>
    /\ generator.config # <<>>
    /\ \E e \in Entries : CompType(e.comp) = "client" /\ "color" \notin DOMAIN e.comp
    /\ Len(Elements("edge")) = 1
    /\ svg_content = first_return.svg_content

\* the relationships whose two ends are positioned, in their original order
Resolved ==
    SelectSeq(Relationships(data),
              LAMBDA r : /\ "from" \in DOMAIN r /\ r.from \in DOMAIN node_positions
                         /\ "to" \in DOMAIN r /\ r.to \in DOMAIN node_positions)

\* C8: a relationship with an end that is no positioned component is dropped
\* and nothing else is: the edges of the document are the relationships with
\* two positioned ends, in order, every component is drawn, and the call
\* raises nowhere but in the write.
C8_DanglingEdgesDropped ==
    /\ (pc = "returned" /\ Components(data) # <<>>) =>
          /\ Len(Elements("edge")) = Len(Resolved)
          /\ \A k \in 1..Len(Resolved) :
                /\ Elements("edge")[k].x1 = node_positions[Resolved[k].from].x
                /\ Elements("edge")[k].y1 = RatInt(node_positions[Resolved[k].from].y)
                /\ Elements("edge")[k].x2 = node_positions[Resolved[k].to].x
                /\ Elements("edge")[k].y2 = RatInt(node_positions[Resolved[k].to].y)
                /\ Elements("edge")[k].color = EdgeColor(Get(Resolved[k], "type", T_request))
          /\ \A e \in Entries : \E k \in 1..Len(Elements("node")) :
                Elements("node")[k].name = e.name
    /\ pc = "raised" => steps[Len(steps)] = "write"

\* a dangling relationship first, a resolved one after it
C8_Witness ==
    /\ pc = "returned"
    /\ Len(Relationships(data)) = 2
    /\ Relationships(data)[1].to = "Ghost"
    /\ Len(Elements("edge")) = 1
    /\ Elements("edge")[1].color = "#3B82F6"
    /\ Len(Elements("node")) = 2

\* C9: with no components (the collection empty or absent) the call returns
\* the placeholder naming the topic, and runs neither the layout nor the
\* node or edge rendering.
C9_EmptyGraphPlaceholder ==
    (calls > 0 /\ Components(data) = <<>>) =>
        /\ pc = "returned"
        /\ svg_content =
              <<[kind |-> "placeholder",
                 text |-> "No components found for: "
                              \o (IF "topic" \in DOMAIN data THEN data.topic
                                  ELSE "Architecture")]>>
        /\ steps = <<"empty_diagram">>
        /\ node_positions = <<>>

\* no 'components' key, a topic, and relationships that go unrendered
C9_Witness ==
    /\ calls > 0
    /\ "components" \notin DOMAIN data
    /\ "topic" \in DOMAIN data
    /\ Relationships(data) # <<>>
    /\ svg_content[1].text = "No components found for: Shop"

\* the description of the component a node element was drawn for
DescriptionOf(name) ==
    Get((CHOOSE e \in Entries : e.name = name).comp, "description", <<>>)

\* C10: a rounded rectangle shows a description of at most 25 characters
\* unchanged, and one of 26 or more as its first 25 characters and '...'.
C10_TruncationBoundary ==
    pc = "returned" =>
        \A k \in 1..Len(Elements("node")) :
            LET el == Elements("node")[k]
                d == DescriptionOf(el.name)
            IN  el.family = "rounded_rect" =>
                    /\ Len(d) <= 25 => el.description = d
                    /\ Len(d) >= 26 =>
                          el.description = SubSeq(d, 1, 25) \o <<".", ".", ".">>

\* one description of 25 characters drawn whole, one of 26 cut to 25 + 3
C10_Witness ==
    /\ pc = "returned"
    /\ \E j, k \in 1..Len(Elements("node")) :
          /\ Elements("node")[j].family = "rounded_rect"
          /\ Len(DescriptionOf(Elements("node")[j].name)) = 25
          /\ Len(Elements("node")[j].description) = 25
          /\ Elements("node")[k].family = "rounded_rect"
          /\ Len(DescriptionOf(Elements("node")[k].name)) = 26
          /\ Len(Elements("node")[k].description) = 28

(***************************************************************************)
(* The shape of a node                                                     *)
(***************************************************************************)

AddShapedComponent ==
    AddComponent(NamesUpTo(MaxShapedComps), ShapedComps, MaxShapedComps)

NextShape == AddShapedComponent \/ RenderOnce

SpecShape == Init /\ [][NextShape]_vars

\* the node element drawn for the component of that name
NodeNamed(name) ==
    LET k == CHOOSE k \in 1..Len(Elements("node")) : Elements("node")[k].name = name
    IN  Elements("node")[k]

\* the family a shape hint names, "" when it names none
HintFamily(comp) ==
    CASE Get(comp, "shape", "") = "cylinder" -> "cylinder"
      [] Get(comp, "shape", "") = "hexagon" -> "hexagon"
      [] Get(comp, "shape", "") = "circle" -> "circle"
      [] Get(comp, "shape", "") = "lightning" -> "queue"
      [] OTHER -> ""

\* the family a semantic type is drawn as by default
TypeFamily(comp) ==
    CASE CompType(comp) = "database" -> "cylinder"
      [] CompType(comp) = "gateway" -> "hexagon"
      [] CompType(comp) = "queue" -> "queue"
      [] OTHER -> "rounded_rect"

\* C12: a component whose shape names a known family is drawn as that
\* family, whatever its semantic type is.
C12_ExplicitShapeWins ==
    (pc = "returned" /\ Components(data) # <<>>) =>
        \A e \in Entries :
            HintFamily(e.comp) # "" => NodeNamed(e.name).family = HintFamily(e.comp)

\* C13: a component without a shape, or with a shape that names no family,
\* is drawn as its type's family: database cylinder, gateway hexagon, queue
\* stacked rectangles, any other type rounded rectangle; and a circle is
\* drawn only for a component whose shape is 'circle'.
C13_TypeDrivenDefault ==
    (pc = "returned" /\ Components(data) # <<>>) =>
        \A e \in Entries :
            /\ HintFamily(e.comp) = "" => NodeNamed(e.name).family = TypeFamily(e.comp)
            /\ NodeNamed(e.name).family = "circle" => Get(e.comp, "shape", "") = "circle"

C13_Witness ==
    /\ pc = "returned"
    /\ \E e \in Entries :
          /\ e.comp = [type |-> "queue", shape |-> "rounded_square"]
          /\ NodeNamed(e.name).family = "queue"

(***************************************************************************)
(* The label of an edge                                                    *)
(***************************************************************************)

AddLabelledRelationship == AddRelationship(LabelledRels, MaxRels)

NextEdge == AddRenderComponent \/ AddLabelledRelationship \/ RenderOnce

SpecEdge == Init /\ [][NextEdge]_vars

\* C14: the text on an edge is the relationship's label when it has one, and
\* otherwise its type with underscores replaced by spaces and each word
\* capitalized.
C14_ExplicitLabelWins ==
    (pc = "returned" /\ Components(data) # <<>>) =>
        /\ Len(Elements("edge")) = Len(Resolved)
        /\ \A k \in 1..Len(Resolved) :
              Elements("edge")[k].label =
                  IF "label" \in DOMAIN Resolved[k]
                  THEN Resolved[k].label
                  ELSE EdgeLabel(Get(Resolved[k], "type", T_request))

(***************************************************************************)
(* Calls of generate_architecture                                          *)
(***************************************************************************)

PutGenerateArguments == PutArguments(Topics, Levels, Contents)

GenerateFromReply == GenerateArchitecture(LlmReplies)

NextGenerate == PutGenerateArguments \/ GenerateFromReply

SpecGenerate == Init /\ [][NextGenerate]_vars

\* the fallback graph of the request
Fallback == GetFallbackArchitecture(request.topic, request.level)

\* the content's length without the blanks at its two ends
StrippedLen ==
    IF request.raw_content.type = "NoneType" THEN 0
    ELSE Len(Strip(request.raw_content.value))

\* C18: no call of the LLM is made before generate_architecture runs; when it
\* has returned, the LLM was never called and the fallback graph was returned
\* if the content is None, empty or shorter than 100 characters once stripped,
\* and the LLM was called exactly once if the stripped length is 100 or more.
C18_CorpusThreshold ==
    /\ pc # "generated" => llm_calls = 0
    /\ (pc = "generated" /\ StrippedLen < MinContent) =>
          llm_calls = 0 /\ architecture = Fallback
    /\ (pc = "generated" /\ StrippedLen >= MinContent) => llm_calls = 1

C18_Witness ==
    /\ pc = "generated"
    /\ StrippedLen = MinContent
    /\ Len(request.raw_content.value) = MinContent + 4
    /\ llm_calls = 1
    /\ architecture = LlmGraph

\* C17: generate_architecture returns a graph whose components are a
\* non-empty mapping and whose relationships are a non-empty list; the graph
\* is the object the response parsed to when that object has both collections
\* non-empty, and the fallback graph in every other case.
C17_GraphOrFallback ==
    pc = "generated" =>
        /\ DOMAIN architecture = {"components", "relationships"}
        /\ architecture.components # <<>>
        /\ IsMapping(architecture.components)
        /\ architecture.relationships # <<>>
        /\ ~IsMapping(architecture.relationships)
        /\ IF /\ llm_calls = 1
              /\ llm_reply.outcome = "returns"
              /\ Usable(ExtractJsonFromResponse(llm_reply.response)) = "yes"
           THEN architecture = ExtractJsonFromResponse(llm_reply.response).value
           ELSE architecture = Fallback

(***************************************************************************)
(* The endpoint                                                            *)
(***************************************************************************)

GatherShopContent == GatherContent(Topics, Levels, Links, ScrapedContents)

GenerateForEndpoint == GenerateArchitecture(EndpointReplies)

NextPipeline ==
    \/ GatherShopContent
    \/ GenerateForEndpoint
    \/ PrepareDiagram
    \/ RenderDiagram
    \/ Respond

SpecPipeline == Init /\ [][NextPipeline]_vars

\* C15: normalize_for_diagram leaves the architecture it is given as it was:
\* from the return of generate_architecture on, the architecture is the graph
\* that was generated, and the components and the relationships of the
\* response are the generated ones.
C15_NormalizationKeepsInput ==
    /\ architecture = generated
    /\ endpoint_response # <<>> =>
          /\ endpoint_response.components = generated.components
          /\ endpoint_response.relationships = generated.relationships

\* C11: the fallback graph drawn by the endpoint has Client, API Gateway,
\* Core Service and Database in the first four layers from the top, at four
\* increasing heights, and exactly three edges, labelled Request, Sync Call
\* and Read Write in that order.
C11_EndToEndExample ==
    (pc = "returned" /\ generated = Fallback) =>
        /\ DOMAIN node_positions = {"Client", "API Gateway", "Core Service", "Database"}
        /\ node_positions["Client"].y = margin_y
        /\ node_positions["API Gateway"].y = margin_y + layer_height
        /\ node_positions["Core Service"].y = margin_y + 2 * layer_height
        /\ node_positions["Database"].y = margin_y + 3 * layer_height
        /\ Len(Elements("edge")) = 3
        /\ Elements("edge")[1].label = <<"R", "e", "q", "u", "e", "s", "t">>
        /\ Elements("edge")[2].label = <<"S", "y", "n", "c", " ", "C", "a", "l", "l">>
        /\ Elements("edge")[3].label =
              <<"R", "e", "a", "d", " ", "W", "r", "i", "t", "e">>
        /\ Len(Elements("node")) = 4

C11_Witness ==
    /\ pc = "returned"
    /\ generated = Fallback
    /\ node_positions["Client"].y = 150
    /\ node_positions["Database"].y = 690
    /\ Len(Elements("edge")) = 3
    /\ Elements("edge")[3].label = EdgeLabel(T_read_write)

(***************************************************************************)
(* The order of the document                                               *)
(***************************************************************************)

\* the kinds of the parts of the document, in the order they were joined
Kinds == [i \in 1..Len(svg_content) |-> svg_content[i].kind]

\* C20: in every diagram drawn for a non-empty graph the document is the
\* header, the background, the title, then every edge, then every node, then
\* the closing tag: every edge stands before every node.
C20_AssemblyOrder ==
    (pc = "returned" /\ Components(data) # <<>>) =>
        LET edges == Len(Elements("edge"))
            nodes == Len(Elements("node"))
        IN  /\ Len(svg_content) = 3 + edges + nodes + 1
            /\ Kinds[1] = "svg"
            /\ Kinds[2] = "background"
            /\ Kinds[3] = "title"
            /\ \A i \in 4..(3 + edges) : Kinds[i] = "edge"
            /\ \A i \in (4 + edges)..(3 + edges + nodes) : Kinds[i] = "node"
            /\ Kinds[Len(svg_content)] = "close"
            /\ \A i, j \in 1..Len(svg_content) :
                  (Kinds[i] = "edge" /\ Kinds[j] = "node") => i < j

C20_Witness ==
    /\ pc = "returned"
    /\ Len(Elements("edge")) = 2
    /\ Len(Elements("node")) = 2
    /\ Kinds = <<"svg", "background", "title", "edge", "edge", "node", "node", "close">>

(***************************************************************************)
(* Graphs that lack a collection                                           *)
(***************************************************************************)

\* the graph lacks a collection, or its components mapping is empty
InvalidGraph ==
    \/ "components" \notin DOMAIN data
    \/ "relationships" \notin DOMAIN data
    \/ Components(data) = <<>>

\* C16: a call for a graph that lacks the components collection or the
\* relationships collection, or whose components mapping is empty, draws no
\* node and no edge and lays nothing out.
C16_InvalidGraphNotRendered ==
    (calls > 0 /\ InvalidGraph) =>
        /\ Elements("node") = <<>>
        /\ Elements("edge") = <<>>
        /\ "layout" \notin Range(steps)
        /\ "nodes" \notin Range(steps)

(***************************************************************************)
(* The written file                                                        *)
(***************************************************************************)

\* C19: when the one call for a non-empty graph has ended, by returning or by
\* raising, every file that exists holds the whole document: no file was
\* there before the call, so the file is either complete or still absent.
C19_WriteAllOrNothing ==
    (pc \in {"returned", "raised"} /\ Components(data) # <<>>) =>
        \A f \in DOMAIN files :
            files[f] = SvgContent(generator, data, node_positions)

(***************************************************************************)
(* The positions on the canvas                                             *)
(***************************************************************************)

\* the heights of the four layers
LayerHeights == {margin_y + k * layer_height : k \in 0..(Len(LayerOrder) - 1)}

\* C30: every node centre is inside the canvas: its x is strictly between
\* the two margins, 150 and 1250, its y is one of 150, 330, 510 and 690, and
\* no two components are at the same place.
C30_PositionsInsideCanvas ==
    pc = "laid" =>
        /\ \A n \in DOMAIN node_positions :
              /\ RatLess(RatInt(150), node_positions[n].x)
              /\ RatLess(node_positions[n].x, RatInt(1250))
              /\ RatLess(node_positions[n].x, RatInt(canvas_width))
              /\ node_positions[n].y \in {150, 330, 510, 690}
              /\ node_positions[n].y \in LayerHeights
              /\ node_positions[n].y < canvas_height
        /\ \A n, o \in DOMAIN node_positions :
              n # o => node_positions[n] # node_positions[o]

C30_Witness ==
    /\ pc = "laid"
    /\ Len(Components(data)) = MaxLayoutComps
    /\ \E n, o \in DOMAIN node_positions :
          /\ node_positions[n].y = 690
          /\ node_positions[o].y = 150
          /\ node_positions[o].x = Rat(700, 1)

(***************************************************************************)
(* Self-loops and unknown types                                            *)
(***************************************************************************)

AddTolerantComponent == AddComponent(NamesUpTo(MaxComps), TolerantComps, MaxComps)

AddTolerantRelationship == AddRelationship(TolerantRels, MaxRels)

NextTolerant == AddTolerantComponent \/ AddTolerantRelationship \/ RenderOnce

SpecTolerant == Init /\ [][NextTolerant]_vars

\* the relationships from an existing component to itself
SelfLoops ==
    {k \in 1..Len(Relationships(data)) :
        /\ Relationships(data)[k].from = Relationships(data)[k].to
        /\ Relationships(data)[k].from \in ComponentNames(Components(data))}

\* C23: a relationship from an existing component to itself is drawn as one
\* edge that starts and ends at that component, with its arrow flag and its
\* label; every other resolved relationship and every component is drawn
\* too, and the call raises nowhere but in the file write.
C23_SelfLoopsDrawn ==
    /\ (pc = "returned" /\ Components(data) # <<>>) =>
          /\ Len(Elements("edge")) =
                Cardinality({k \in 1..Len(Relationships(data)) :
                    /\ Relationships(data)[k].from \in ComponentNames(Components(data))
                    /\ Relationships(data)[k].to \in ComponentNames(Components(data))})
          /\ Len(Elements("edge")) = Len(Resolved)
          /\ \A k \in 1..Len(Resolved) :
                Resolved[k].from = Resolved[k].to =>
                    /\ Elements("edge")[k].x1 = Elements("edge")[k].x2
                    /\ Elements("edge")[k].y1 = Elements("edge")[k].y2
                    /\ Elements("edge")[k].x1 = node_positions[Resolved[k].from].x
                    /\ Elements("edge")[k].arrow = Get(Resolved[k], "arrow", TRUE)
                    /\ Elements("edge")[k].label = EdgeLabel(Resolved[k].type)
          /\ Len(Elements("node")) = Len(Components(data))
    /\ pc = "raised" => steps[Len(steps)] = "write"

C23_Witness ==
    /\ pc = "returned"
    /\ Len(Components(data)) = 2
    /\ Len(Relationships(data)) = 2
    /\ Cardinality(SelfLoops) = 1
    /\ Len(Elements("edge")) = 2
    /\ \E k \in 1..2 : Elements("edge")[k].x1 = Elements("edge")[k].x2
                          /\ Elements("edge")[k].y1 = Elements("edge")[k].y2

\* the relationship types that have a colour of their own
KnownRelTypes == {T_request, T_response, T_sync_call, T_async_event, T_read_write}

RenderToFile == GenerateSvgDiagramTo({"architecture"}, 1)

NextArtifact == AddRenderComponent \/ PutComponents \/ PutRenderTopic \/ RenderToFile

SpecArtifact == Init /\ [][NextArtifact]_vars

\* C28: when a call with the output name 'architecture' has returned, the
\* file architecture.svg exists and holds exactly the returned document,
\* whatever the graph was.
C28_ReturnedEqualsWritten ==
    pc = "returned" =>
        /\ SvgFile("architecture") \in DOMAIN files
        /\ files[SvgFile("architecture")] = svg_content

(***************************************************************************)
(* What the endpoint hands to the renderer                                 *)
(***************************************************************************)

\* C29: in the endpoint the graph handed to generate_svg_diagram has no
\* 'shape' and no 'color' on any component and no 'line' on any relationship;
\* so every node is drawn in the colour of its type, or #6B7280, and in the
\* shape of its type, and every edge is drawn solid.
C29_HintsNeverReachRenderer ==
    (request # <<>> /\ data # <<>>) =>
        /\ \A e \in Entries : DOMAIN e.comp \cap {"shape", "color"} = {}
        /\ \A k \in 1..Len(Relationships(data)) :
              "line" \notin DOMAIN Relationships(data)[k]
        /\ pc = "returned" =>
              /\ Len(Elements("node")) = Len(generated.components)
              /\ \A e \in Entries :
                    /\ NodeNamed(e.name).color
                          = Get(default_palette, CompType(e.comp), "#6B7280")
                    /\ NodeNamed(e.name).family = TypeFamily(e.comp)
              /\ Len(Elements("edge")) = Len(generated.relationships)
              /\ \A k \in 1..Len(Elements("edge")) : Elements("edge")[k].dash = ""

C29_Witness ==
    /\ pc = "returned"
    /\ generated = LlmGraph
    /\ generated.components[1].comp.shape = "circle"
    /\ generated.relationships[1].line = "dashed"
    /\ NodeNamed("Web").family = "rounded_rect"
    /\ NodeNamed("Web").color = "#6B7280"
    /\ NodeNamed("Store").color = "#F59E0B"
    /\ Elements("edge")[1].dash = ""

\* C25: once generate_architecture has returned, the request ends with an
\* ArchitectureResponse that carries the topic, the level, the components,
\* the relationships and the links of the request, whether the diagram was
\* drawn or normalize_for_diagram or generate_svg_diagram raised.
C25_DiagramFailureNotFatal ==
    (generated # <<>> /\ pc \in {"responded", "failed"}) =>
        /\ pc = "responded"
        /\ endpoint_response =
              [topic |-> request.topic,
               level |-> request.level,
               components |-> architecture.components,
               relationships |-> architecture.relationships,
               resources |-> request.valid_links]

(***************************************************************************)
(* llm_client: the environment, HybridLLMClient and call_llm.              *)
(***************************************************************************)

\* os.getenv(name, ""): the empty string stands for a key that is not set
ApiKeys == {"", "key"}

\* PERPLEXITY_API_KEY, GEMINI_API_KEY and GROQ_API_KEY as the import reads them
Environments ==
    [PERPLEXITY_API_KEY : ApiKeys, GEMINI_API_KEY : ApiKeys, GROQ_API_KEY : ApiKeys]

\* the providers, and what the call of each one does once it is made
Providers == {"perplexity", "gemini", "groq"}

Behaviours == [Providers -> {"returns", "raises"}]

\* the values of call_llm's argument provider
ProviderArguments == {"auto", "perplexity", "gemini", "groq", "openai"}

\* PerplexityClient(api_key): raises ValueError without a key
PerplexityClient(api_key) ==
    IF api_key = "" THEN [raises |-> "ValueError"] ELSE [class |-> "PerplexityClient"]

\* GeminiClient(api_key): without a key the object is built but not available
GeminiClient(api_key) ==
    [class |-> "GeminiClient", available |-> api_key # ""]

\* HybridLLMClient(): the keys default to those of the environment
HybridLLMClient(id, environment) ==
    [id |-> id,
     perplexity |-> IF /\ environment.PERPLEXITY_API_KEY # ""
                       /\ "raises" \notin
                              DOMAIN PerplexityClient(environment.PERPLEXITY_API_KEY)
                    THEN PerplexityClient(environment.PERPLEXITY_API_KEY)
                    ELSE None,
     gemini |-> IF environment.GEMINI_API_KEY # ""
                THEN GeminiClient(environment.GEMINI_API_KEY)
                ELSE None,
     groq_key |-> environment.GROQ_API_KEY]

\* the dictionary a provider returns: its text under the key response
ProviderResult(provider) ==
    [response |-> "text of " \o provider, provider |-> provider]

\* the three stages of HybridLLMClient.generate: each takes the calls made so
\* far and the result so far (<<>> while no provider has returned)
TryPerplexity(self, prefer_live_search, does) ==
    IF prefer_live_search /\ self.perplexity # None
    THEN [invoked |-> <<"perplexity">>,
          result |-> IF does["perplexity"] = "returns"
                     THEN [outcome |-> "returns", value |-> ProviderResult("perplexity")]
                     ELSE <<>>]
    ELSE [invoked |-> <<>>, result |-> <<>>]

TryGemini(self, so_far, does) ==
    IF so_far.result # <<>> THEN so_far
    ELSE IF self.gemini # None /\ self.gemini.available
    THEN [invoked |-> Append(so_far.invoked, "gemini"),
          result |-> IF does["gemini"] = "returns"
                     THEN [outcome |-> "returns", value |-> ProviderResult("gemini")]
                     ELSE <<>>]
    ELSE so_far

\* _groq_cli_fallback: the text of the command, or RuntimeError when it fails
GroqCliFallback(does) ==
    IF does["groq"] = "returns"
    THEN [outcome |-> "returns", value |-> ProviderResult("groq")]
    ELSE [outcome |-> "raises", exception |-> "RuntimeError", message |-> "Groq CLI failed"]

TryGroq(self, so_far, does) ==
    IF so_far.result # <<>> THEN so_far
    ELSE IF self.groq_key # ""
    THEN [invoked |-> Append(so_far.invoked, "groq"), result |-> GroqCliFallback(does)]
    ELSE [invoked |-> so_far.invoked,
          result |-> [outcome |-> "raises", exception |-> "RuntimeError",
                      message |-> "No LLM providers available"]]

\* the same chain asking for Perplexity whatever prefer_live_search says
HybridGenerateAlwaysLive(self, prefer_live_search, does) ==
    TryGroq(self, TryGemini(self, TryPerplexity(self, TRUE, does), does), does)

\* HybridLLMClient.generate(prompt, prefer_live_search)
HybridGenerate(self, prefer_live_search, does) ==
    TryGroq(self, TryGemini(self, TryPerplexity(self, prefer_live_search, does), does),
            does)

\* the call of one provider's own generate, as call_llm makes it
ProviderGenerate(provider, does) ==
    [invoked |-> <<provider>>,
     result |-> IF does[provider] = "returns"
                THEN [outcome |-> "returns", value |-> ProviderResult(provider)]
                ELSE [outcome |-> "raises", exception |-> "APIError",
                      message |-> provider \o " failed"]]

ValueError(message) ==
    [invoked |-> <<>>,
     result |-> [outcome |-> "raises", exception |-> "ValueError", message |-> message]]

\* the body of call_llm after get_llm_client: the branch of the provider
CallLlmOn(self, provider, does) ==
    CASE provider = "auto" -> HybridGenerate(self, TRUE, does)
      [] provider = "perplexity" ->
            IF self.perplexity = None THEN ValueError("Perplexity not configured")
            ELSE ProviderGenerate("perplexity", does)
      [] provider = "gemini" ->
            IF self.gemini = None THEN ValueError("Gemini not configured")
            ELSE ProviderGenerate("gemini", does)
      [] OTHER -> ValueError("Unknown provider")

\* return result["response"]
ResponseOf(call) ==
    IF call.result.outcome = "returns"
    THEN [outcome |-> "returns", value |-> call.result.value.response]
    ELSE call.result

\* get_llm_client() run without interruption: the client it returns
GetLlmClient ==
    IF client = <<>> THEN HybridLLMClient(constructed + 1, env) ELSE client

\* the import of llm_client: load_dotenv and the three os.getenv
ImportLlmClient(environments) ==
    /\ env = <<>>
    /\ \E environment \in environments : env' = environment
    /\ UNCHANGED <<client, constructed, threads, llm_call, invoked, llm_result>>
    /\ UNCHANGED <<data, pc, node_positions, svg_content, steps, generator, files,
                   first_return, calls, endpoint, served, objects>>

\* get_llm_client().generate(prompt, prefer_live_search)
Generate(preferences, behaviours) ==
    /\ env # <<>>
    /\ \E prefer_live_search \in preferences, does \in behaviours :
          LET call == HybridGenerate(GetLlmClient, prefer_live_search, does)
          IN  /\ llm_call' = [function |-> "generate",
                              prefer_live_search |-> prefer_live_search,
                              does |-> does]
              /\ invoked' = call.invoked
              /\ llm_result' = call.result
    /\ client' = GetLlmClient
    /\ constructed' = IF client = <<>> THEN constructed + 1 ELSE constructed
    /\ UNCHANGED <<env, threads>>
    /\ UNCHANGED <<data, pc, node_positions, svg_content, steps, generator, files,
                   first_return, calls, endpoint, served, objects>>

\* call_llm(prompt, provider)
CallLlm(providers, behaviours) ==
    /\ env # <<>>
    /\ \E provider \in providers, does \in behaviours :
          LET call == CallLlmOn(GetLlmClient, provider, does)
          IN  /\ llm_call' = [function |-> "call_llm", provider |-> provider,
                              does |-> does]
              /\ invoked' = call.invoked
              /\ llm_result' = ResponseOf(call)
    /\ client' = GetLlmClient
    /\ constructed' = IF client = <<>> THEN constructed + 1 ELSE constructed
    /\ UNCHANGED <<env, threads>>
    /\ UNCHANGED <<data, pc, node_positions, svg_content, steps, generator, files,
                   first_return, calls, endpoint, served, objects>>

NextProvider ==
    \/ ImportLlmClient(Environments)
    \/ Generate(BOOLEAN, Behaviours)
    \/ CallLlm(ProviderArguments, Behaviours)

SpecProvider == Init /\ [][NextProvider]_vars

\* the position of a provider in the chain
ProviderRank(provider) ==
    CASE provider = "perplexity" -> 1
      [] provider = "gemini" -> 2
      [] provider = "groq" -> 3

\* the last call went through the chain of HybridLLMClient.generate
ChainCall ==
    /\ llm_call # <<>>
    /\ IF llm_call.function = "generate" THEN TRUE ELSE llm_call.provider = "auto"

ChainPreference ==
    IF llm_call.function = "generate" THEN llm_call.prefer_live_search ELSE TRUE

\* the provider may be tried by the last call
Eligible(provider) ==
    CASE provider = "perplexity" -> ChainPreference /\ client.perplexity # None
      [] provider = "gemini" -> client.gemini # None /\ client.gemini.available
      [] provider = "groq" -> client.groq_key # ""

\* the provider was invoked by the last call and its call raised
Failed(provider) ==
    /\ \E i \in 1..Len(invoked) : invoked[i] = provider
    /\ llm_call.does[provider] = "raises"

\* the last call returned what the provider produced
ReturnedFrom(provider) ==
    /\ llm_result.outcome = "returns"
    /\ llm_result.value = IF llm_call.function = "generate"
                          THEN ProviderResult(provider)
                          ELSE ProviderResult(provider).response

\* C21: a call of HybridLLMClient.generate invokes providers in the order
\* Perplexity, Gemini, Groq; it invokes Perplexity only if configured and
\* prefer_live_search, Gemini only if configured and available, Groq only if
\* its key is set, and each only after every earlier provider was unavailable
\* or failed; it returns the result of the first provider that succeeds and
\* invokes none after it; with no provider available it raises RuntimeError.
C21_ProviderFallbackChain ==
    ChainCall =>
        /\ \A i, j \in 1..Len(invoked) :
              i < j => ProviderRank(invoked[i]) < ProviderRank(invoked[j])
        /\ \A i \in 1..Len(invoked) :
              /\ Eligible(invoked[i])
              /\ \A q \in Providers :
                    ProviderRank(q) < ProviderRank(invoked[i])
                        => (~Eligible(q) \/ Failed(q))
        /\ \A p \in Providers :
              (/\ Eligible(p)
               /\ llm_call.does[p] = "returns"
               /\ \A q \in Providers :
                     ProviderRank(q) < ProviderRank(p)
                         => (~Eligible(q) \/ llm_call.does[q] = "raises"))
                  => /\ ReturnedFrom(p)
                     /\ invoked[Len(invoked)] = p
        /\ llm_result.outcome = "returns" =>
              /\ invoked # <<>>
              /\ llm_call.does[invoked[Len(invoked)]] = "returns"
              /\ ReturnedFrom(invoked[Len(invoked)])
        /\ (\A p \in Providers : ~Eligible(p)) =>
              /\ invoked = <<>>
              /\ llm_result = [outcome |-> "raises", exception |-> "RuntimeError",
                               message |-> "No LLM providers available"]

C21_Witness ==
    /\ ChainCall
    /\ llm_call.function = "generate"
    /\ invoked = <<"perplexity", "gemini">>
    /\ client.groq_key # ""
    /\ llm_call.does["groq"] = "returns"
    /\ ReturnedFrom("gemini")

\* C22: call_llm returns the generated text for each of the provider values
\* 'auto', 'perplexity', 'gemini' and 'groq' whose provider is configured
\* and succeeds, and raises ValueError 'Unknown provider' only for a value
\* outside these four.
C22_DocumentedProvidersAccepted ==
    (llm_call # <<>> /\ llm_call.function = "call_llm") =>
        /\ (/\ llm_result.outcome = "raises"
            /\ llm_result.exception = "ValueError"
            /\ llm_result.message = "Unknown provider")
              => llm_call.provider \notin {"auto", "perplexity", "gemini", "groq"}
        /\ (/\ llm_call.provider \in Providers
            /\ CASE llm_call.provider = "perplexity" -> client.perplexity # None
                 [] llm_call.provider = "gemini" -> client.gemini # None
                 [] llm_call.provider = "groq" -> client.groq_key # ""
            /\ llm_call.does[llm_call.provider] = "returns")
              => llm_result = [outcome |-> "returns",
                               value |-> ProviderResult(llm_call.provider).response]
        /\ (llm_call.provider = "auto" /\ invoked # <<>>
            /\ llm_call.does[invoked[Len(invoked)]] = "returns")
              => llm_result.outcome = "returns"

(***************************************************************************)
(* get_llm_client called from worker threads: the statements of lines      *)
(* 306-308 are separate steps, and any thread may run between two of them. *)
(***************************************************************************)

Threads == 1..MaxThreads

UnchangedByThreads ==
    UNCHANGED <<data, pc, node_positions, svg_content, steps, generator, files,
                first_return, calls, endpoint, served, objects, env, llm_call,
                invoked, llm_result>>

\* if _client is None
CheckClient(t) ==
    /\ env # <<>>
    /\ threads[t].pc = "outside"
    /\ threads' = [threads EXCEPT ![t] =
                      [pc |-> IF client = <<>> THEN "construct" ELSE "return"]]
    /\ UNCHANGED <<client, constructed>>
    /\ UnchangedByThreads

\* HybridLLMClient(): the right-hand side of line 307
ConstructClient(t) ==
    /\ threads[t].pc = "construct"
    /\ constructed' = constructed + 1
    /\ threads' = [threads EXCEPT ![t] =
                      [pc |-> "assign", built |-> HybridLLMClient(constructed + 1, env)]]
    /\ UNCHANGED client
    /\ UnchangedByThreads

\* _client = ...: the store of line 307
AssignClient(t) ==
    /\ threads[t].pc = "assign"
    /\ client' = threads[t].built
    /\ threads' = [threads EXCEPT ![t] = [pc |-> "return"]]
    /\ UNCHANGED constructed
    /\ UnchangedByThreads

\* return _client
ReturnClient(t) ==
    /\ threads[t].pc = "return"
    /\ threads' = [threads EXCEPT ![t] = [pc |-> "returned", got |-> client]]
    /\ UNCHANGED <<client, constructed>>
    /\ UnchangedByThreads

NextSingleton ==
    \/ ImportLlmClient(Environments)
    \/ \E t \in Threads : CheckClient(t)
    \/ \E t \in Threads : ConstructClient(t)
    \/ \E t \in Threads : AssignClient(t)
    \/ \E t \in Threads : ReturnClient(t)

SpecSingleton == Init /\ [][NextSingleton]_vars

\* C27: whatever the interleaving of the concurrent calls of get_llm_client,
\* at most one HybridLLMClient is constructed and every call that has
\* returned got that one instance.
C27_SingletonUnderInterleaving ==
    /\ constructed <= 1
    /\ \A t, u \in Threads :
          (threads[t].pc = "returned" /\ threads[u].pc = "returned")
              => threads[t].got = threads[u].got

(***************************************************************************)
(* Several requests served at once by worker threads.  Every request has   *)
(* its own local variables; a graph or a generator is an object, held by   *)
(* reference, so that two requests holding the same object would see each  *)
(* other's changes.  The steps of one request are those of the endpoint:   *)
(* generate_architecture, lines 30-36, generate_svg_diagram, the response. *)
(***************************************************************************)

Requests == 1..MaxRequests

\* where the graphs of these requests come from
Origins == {"fallback", "llm"}

\* a new object placed after those allocated so far
NewObject(heap, value) ==
    [ref |-> Len(heap) + 1, heap |-> Append(heap, value)]

\* json.loads builds the graph it returns
ParsedGraphObject(heap) == NewObject(heap, LlmGraph)

\* one fallback graph kept for the whole process and handed to every caller
FallbackObjectShared(heap, topic, level) ==
    IF \E i \in 1..Len(heap) : DOMAIN heap[i] = DOMAIN GetFallbackArchitecture(topic, level)
    THEN [ref |-> CHOOSE i \in 1..Len(heap) :
                     DOMAIN heap[i] = DOMAIN GetFallbackArchitecture(topic, level),
          heap |-> heap]
    ELSE NewObject(heap, GetFallbackArchitecture(topic, level))

\* get_fallback_architecture: the dict literal it returns is built by the call
FallbackObject(heap, topic, level) ==
    NewObject(heap, GetFallbackArchitecture(topic, level))

\* generator = EnhancedSVGGenerator(config_file), with what its run leaves in it
GeneratorObject(heap, self, positions, content) ==
    NewObject(heap, [generator |-> self, node_positions |-> positions,
                     svg_content |-> content])

\* diagram_data of lines 32-36: it holds the collections of the request's graph
DiagramData(heap, locals) ==
    [topic |-> locals.topic \o " - " \o Upper(locals.level),
     components |-> heap[locals.architecture].components,
     relationships |-> heap[locals.architecture].relationships]

UnchangedByRequests ==
    UNCHANGED <<data, pc, node_positions, svg_content, steps, generator,
                first_return, calls, endpoint, llm>>

\* architecture = generate_architecture(...) in request r
ServeGenerate(r, topics, levels, origins) ==
    /\ served[r].pc = "waiting"
    /\ \E topic \in topics, level \in levels, origin \in origins :
          LET made == IF origin = "fallback"
                      THEN FallbackObject(objects, topic, level)
                      ELSE ParsedGraphObject(objects)
          IN  /\ objects' = made.heap
              /\ served' = [served EXCEPT ![r] =
                               [pc |-> "generated", topic |-> topic, level |-> level,
                                origin |-> origin, architecture |-> made.ref]]
    /\ UNCHANGED files
    /\ UnchangedByRequests

\* lines 30-36 in request r: normalize_for_diagram changes the graph in place
ServeNormalize(r) ==
    /\ served[r].pc = "generated"
    /\ IF IsMapping(objects[served[r].architecture].components)
       THEN /\ objects' = [objects EXCEPT ![served[r].architecture] =
                              NormalizeForDiagram(@)]
            /\ served' = [served EXCEPT ![r].pc = "normalized"]
       ELSE /\ served' = [served EXCEPT ![r].pc = "diagram_failed"]
            /\ UNCHANGED objects
    /\ UNCHANGED files
    /\ UnchangedByRequests

\* lines 37-40 in request r: generate_svg_diagram(diagram_data, diagram_filename)
ServeRender(r, configs, outcomes) ==
    /\ served[r].pc = "normalized"
    /\ \E loaded \in configs, io \in outcomes :
          LET self == Generator(loaded)
              d == DiagramData(objects, served[r])
              positions == CalculateHierarchicalLayout(Components(d))
              content == SvgContent(self, d, positions)
              output == DiagramFilename(served[r].topic, served[r].level)
              made == GeneratorObject(objects, self, positions, content)
          IN  /\ objects' = made.heap
              /\ CASE io = "ok" ->
                        /\ files' = (SvgFile(output) :> content) @@ files
                        /\ served' = [served EXCEPT ![r] =
                                         [pc |-> "returned", generator |-> made.ref,
                                          config |-> loaded, svg_content |-> content]
                                             @@ @]
                   [] io = "open_fails" ->
                        /\ UNCHANGED files
                        /\ served' = [served EXCEPT ![r] =
                                         [pc |-> "raised", generator |-> made.ref,
                                          config |-> loaded] @@ @]
                   [] io = "write_fails" ->
                        /\ \E part \in PartialContents(content) :
                              files' = (SvgFile(output) :> part) @@ files
                        /\ served' = [served EXCEPT ![r] =
                                         [pc |-> "raised", generator |-> made.ref,
                                          config |-> loaded] @@ @]
    /\ UnchangedByRequests

\* lines 42-52 in request r
ServeRespond(r) ==
    /\ served[r].pc \in {"returned", "raised", "diagram_failed"}
    /\ served' = [served EXCEPT ![r] =
                     [pc |-> "responded",
                      response |->
                          [topic |-> served[r].topic,
                           level |-> served[r].level,
                           components |->
                               Get(objects[served[r].architecture], "components", <<>>),
                           relationships |->
                               Get(objects[served[r].architecture], "relationships",
                                   <<>>)]]
                         @@ @]
    /\ UNCHANGED <<objects, files>>
    /\ UnchangedByRequests

NextConcurrent ==
    \/ \E r \in Requests : ServeGenerate(r, Topics, {"hld"}, Origins)
    \/ \E r \in Requests : ServeNormalize(r)
    \/ \E r \in Requests : ServeRender(r, {<<>>}, {"ok"})
    \/ \E r \in Requests : ServeRespond(r)

SpecConcurrent == Init /\ [][NextConcurrent]_vars

\* the graph generate_architecture gives request r, from r's own inputs
ExpectedGraph(r) ==
    IF served[r].origin = "fallback"
    THEN GetFallbackArchitecture(served[r].topic, served[r].level)
    ELSE LlmGraph

\* the diagram of request r, from r's own inputs
ExpectedDiagram(r) ==
    LET graph == NormalizeForDiagram(ExpectedGraph(r))
        d == [topic |-> served[r].topic \o " - " \o Upper(served[r].level),
              components |-> graph.components,
              relationships |-> graph.relationships]
        positions == CalculateHierarchicalLayout(Components(d))
        self == Generator(served[r].config)
    IN  [generator |-> self,
         node_positions |-> positions,
         svg_content |-> SvgContent(self, d, positions)]

\* the objects request r holds
Held(r) ==
    (IF "architecture" \in DOMAIN served[r] THEN {served[r].architecture} ELSE {})
        \cup (IF "generator" \in DOMAIN served[r] THEN {served[r].generator} ELSE {})

\* C26: requests served one after another or at once share no graph and no
\* generator: each holds objects of its own, its graph is the one
\* generate_architecture built for it until its own normalize_for_diagram
\* changes it, and its layout, its document and its response are those of its
\* own graph whatever the other requests have done.
C26_NoSharedRenderState ==
    /\ \A r, s \in Requests : r # s => Held(r) \cap Held(s) = {}
    /\ \A r \in Requests :
          /\ Cardinality(Held(r)) = Cardinality(DOMAIN served[r]
                                                    \cap {"architecture", "generator"})
          /\ served[r].pc = "generated"
                => objects[served[r].architecture] = ExpectedGraph(r)
          /\ served[r].pc \in {"normalized", "returned", "raised", "responded"}
                => objects[served[r].architecture]
                      = NormalizeForDiagram(ExpectedGraph(r))
          /\ "generator" \in DOMAIN served[r]
                => objects[served[r].generator] = ExpectedDiagram(r)
          /\ "svg_content" \in DOMAIN served[r]
                => served[r].svg_content = objects[served[r].generator].svg_content
          /\ served[r].pc = "responded"
                => /\ served[r].response.components
                         = NormalizeForDiagram(ExpectedGraph(r)).components
                   /\ served[r].response.relationships
                         = NormalizeForDiagram(ExpectedGraph(r)).relationships

C26_Witness ==
    /\ served[1].pc = "returned"
    /\ served[2].pc = "generated"
    /\ served[1].origin = "fallback"
    /\ served[2].origin = "fallback"
    /\ served[1].level = served[2].level
    /\ served[2].architecture > served[1].generator
    /\ "shape" \notin DOMAIN objects[served[1].architecture].components[1].comp
    /\ "shape" \in DOMAIN objects[served[2].architecture].components[1].comp

====
